---- MODULE Spec2Model ----
(***************************************************************************)
(* excel4node: the workbook's interning tables (shared strings, styles),   *)
(* the worksheet model and the worksheet serializer (sheetXML) as a state  *)
(* machine.  Line numbers refer to src/unnamed/part_000 (the worksheet     *)
(* builder, lines 1-661, and the Workbook class, lines 662-954).           *)
(***************************************************************************)
EXTENDS Integers, Sequences, FiniteSets, TLC

VARIABLES
    sharedStrings,  \* Workbook.sharedStrings: the shared string table
    styles,         \* Workbook.styles: sequence of Style objects
    stylesLookup,   \* Workbook.stylesLookup: lookup key -> Style object
    call,           \* the last Workbook method call: its name, argument, result
    definedNames,   \* Workbook.definedNameCollection, in insertion order
    ws,             \* the worksheets: sheet id -> Worksheet object
    run,            \* per worksheet: the sheetXML call in progress
    batch           \* one _addSheetData traversal, batch by batch

vars == <<sharedStrings, styles, stylesLookup, call, definedNames, ws, run, batch>>

wbVars == <<sharedStrings, styles, stylesLookup, call>>
wsVars == <<definedNames, ws, run>>

----------------------------------------------------------------------------
(* Bounds of the model *)

MaxStyles == 4
MaxRow == 3
MaxCol == 2
MaxCells == 2
MaxChunk == 3
MaxBatchRows == 4
MaxRelationships == 3
MaxOptions == 2

\* optional values: null is the empty sequence, a number n is <<n>>
None == <<>>
Some(v) == <<v>>
IsSet(o) == o # <<>>
Val(o) == o[1]

Range(f) == {f[i] : i \in DOMAIN f}

Max(S) == CHOOSE x \in S : \A y \in S : y <= x
Min(S) == CHOOSE x \in S : \A y \in S : x <= y

\* Array.prototype.indexOf (0-based, -1 when absent)
IndexOf(seq, v) ==
    IF \E i \in DOMAIN seq : seq[i] = v
    THEN Min({i \in DOMAIN seq : seq[i] = v}) - 1
    ELSE -1

----------------------------------------------------------------------------
(* Workbook.getStringIndex *)

Texts == {"Hello", "World", "a", "b"}

\* a push that forgets the lookup: every call appends
PushAlways(strs, val) == Append(strs, val)

\* lines 950-952: push the text unless indexOf finds it
PushIfAbsent(strs, val) ==
    IF IndexOf(strs, val) < 0 THEN Append(strs, val) ELSE strs

\* lines 949-954
getStringIndex(val) ==
    /\ sharedStrings' = PushIfAbsent(sharedStrings, val)
    /\ call' = [op |-> "getStringIndex", arg |-> val,
                ret |-> IndexOf(sharedStrings', val)]
    /\ UNCHANGED <<styles, stylesLookup, definedNames, ws, run, batch>>

----------------------------------------------------------------------------
(* Workbook.createStyle *)

\* the fields of a style's options, in the order toObject writes them
StyleFields == <<"font", "numberFormat">>
StyleValues == {"Calibri", "Arial"}

\* style options as the caller writes them: a list of (field, value) pairs with
\* distinct fields, in any order
StyleOpts ==
    {<<>>} \cup
    {<<[f |-> StyleFields[i], v |-> x]>> : i \in DOMAIN StyleFields, x \in StyleValues} \cup
    {<<[f |-> StyleFields[ij[1]], v |-> x], [f |-> StyleFields[ij[2]], v |-> y]>> :
        ij \in {p \in (DOMAIN StyleFields) \X (DOMAIN StyleFields) : p[1] # p[2]},
        x \in StyleValues, y \in StyleValues}

\* workbookDefaultOpts.defaultFont, lines 693-698
DefaultFontOpts == <<[f |-> "font", v |-> "Calibri"]>>

\* Style.toObject: the fields that are set, in the fixed field order
RECURSIVE toObjectFrom(_, _)
toObjectFrom(opts, i) ==
    IF i > Len(StyleFields) THEN <<>>
    ELSE LET here == {k \in DOMAIN opts : opts[k].f = StyleFields[i]}
         IN  (IF here = {} THEN <<>> ELSE <<opts[Min(here)]>>)
             \o toObjectFrom(opts, i + 1)

toObject(opts) == toObjectFrom(opts, 1)

\* a key made of the options as the caller wrote them
LookupKeyAsWritten(opts) == opts

\* line 930: JSON.stringify(thisStyle.toObject())
LookupKey(opts) == toObject(opts)

\* a lookup that never finds an existing style
FindStyleNever(lookup, key) == None

\* lines 933-935: the registered style of this key, if any
FindStyle(lookup, key) ==
    IF key \in DOMAIN lookup THEN Some(lookup[key]) ELSE None

\* lines 928-941; a Style object is its options and ids.cellXfs, and is
\* named by its position in styles (objects are only kept when pushed)
createStyle(opts) ==
    LET lookupKey == LookupKey(opts)
        found == FindStyle(stylesLookup, lookupKey)
    IN  /\ IsSet(found) \/ Len(styles) < MaxStyles
        /\ IF IsSet(found)
           THEN /\ UNCHANGED <<styles, stylesLookup>>
                /\ call' = [op |-> "createStyle", arg |-> opts, ret |-> Val(found)]
           ELSE LET index == Len(styles)
                IN  /\ styles' = Append(styles, [opts |-> opts, cellXfs |-> index])
                    /\ stylesLookup' = (lookupKey :> (index + 1)) @@ stylesLookup
                    /\ call' = [op |-> "createStyle", arg |-> opts, ret |-> index + 1]
        /\ UNCHANGED <<sharedStrings, definedNames, ws, run, batch>>

----------------------------------------------------------------------------
(* Cell-reference utilities (utils.getExcelAlpha, getExcelRowCol, sortCellRefs) *)

Alphabet == <<"A", "B", "C", "D", "E", "F", "G", "H", "I", "J", "K", "L", "M",
              "N", "O", "P", "Q", "R", "S", "T", "U", "V", "W", "X", "Y", "Z">>

\* column number -> column letters: 1 is A, 26 is Z, 27 is AA
RECURSIVE getExcelAlpha(_)
getExcelAlpha(colNum) ==
    IF colNum <= 0 THEN ""
    ELSE LET mod == (colNum - 1) % Len(Alphabet)
         IN  getExcelAlpha((colNum - 1 - mod) \div Len(Alphabet)) \o Alphabet[mod + 1]

\* the reference of the cell at (row, col): "C2"
CellRef(row, col) == getExcelAlpha(col) \o ToString(row)

\* reference -> (row, col), the inverse of CellRef on the sheet's grid
getExcelRowCol(ref) ==
    CHOOSE rc \in [row : 1..MaxRow, col : 1..MaxCol] :
        CellRef(rc.row, rc.col) = ref

\* the comparator of cell references: by column, then by row
sortCellRefs(a, b) ==
    LET aAtt == getExcelRowCol(a)
        bAtt == getExcelRowCol(b)
    IN  IF aAtt.col = bAtt.col THEN aAtt.row - bAtt.row ELSE aAtt.col - bAtt.col

\* Array.prototype.sort with a comparator (an insertion sort: stable)
RECURSIVE InsertSorted(_, _)
InsertSorted(sorted, x) ==
    IF sorted = <<>> THEN <<x>>
    ELSE IF sortCellRefs(x, sorted[Len(sorted)]) >= 0 THEN Append(sorted, x)
    ELSE Append(InsertSorted(SubSeq(sorted, 1, Len(sorted) - 1), x), sorted[Len(sorted)])

RECURSIVE SortRefs(_)
SortRefs(refs) ==
    IF refs = <<>> THEN <<>>
    ELSE InsertSorted(SortRefs(SubSeq(refs, 1, Len(refs) - 1)), refs[Len(refs)])

\* Object.keys of an object with integer keys: ascending numeric order
RECURSIVE ObjectKeys(_)
ObjectKeys(S) ==
    IF S = {} THEN <<>> ELSE <<Min(S)>> \o ObjectKeys(S \ {Min(S)})

\* utils.boolToInt
boolToInt(b) == IF b = TRUE THEN 1 ELSE 0

\* utils.getHashOfPassword: an opaque token of the password
getHashOfPassword(p) == <<"hash", p>>

----------------------------------------------------------------------------
(* The worksheet model *)

\* the worksheet options the serializer reads, all unset
DefaultAutoFilter == [startRow |-> None, endRow |-> None, startCol |-> None,
                      endCol |-> None, ref |-> None]
DefaultProtection == [sheet |-> None, objects |-> None, scenarios |-> None,
                      password |-> None, formatCells |-> None]
DefaultOpts ==
    [printOptions |-> [fitToHeight |-> None, fitToWidth |-> None,
                       centerHorizontal |-> None],
     outline |-> [summaryBelow |-> None, summaryRight |-> None],
     pageSetup |-> [fitToHeight |-> None, orientation |-> None],
     headerFooter |-> [oddHeader |-> None],
     sheetProtection |-> DefaultProtection,
     autoFilter |-> DefaultAutoFilter]

\* a Worksheet right after its constructor
NewWorksheet(id, opts) ==
    [name |-> "Sheet" \o ToString(id),
     sheetId |-> id,
     localSheetId |-> id - 1,
     opts |-> opts,
     rows |-> <<>>,
     cells |-> <<>>,
     lastUsedRow |-> 1,
     lastUsedCol |-> 1,
     columnCount |-> 0,
     mergedCells |-> <<>>,
     hasCfRules |-> FALSE,
     dataValidations |-> <<>>,
     hasHyperlinks |-> FALSE,
     drawingIsEmpty |-> TRUE,
     relationships |-> <<>>]

\* the worksheets a workbook may hold
SheetIds == {1, 2}

\* no sheetXML call yet; calls is the number of times the caller will call it
Idle(calls) == [pc |-> "idle", xml |-> <<>>, promise |-> "none", unhandled |-> FALSE,
                calls |-> calls]

\* ws.cells is an object keyed by reference: its keys keep insertion order
NumCells(w) == Len(w.cells)
HasCell(w, ref) == \E i \in DOMAIN w.cells : w.cells[i].ref = ref
CellAt(w, ref) == w.cells[CHOOSE i \in DOMAIN w.cells : w.cells[i].ref = ref]

\* Row.firstColumn / Row.lastColumn: the row's first and last populated column
firstColumn(row) == Min({getExcelRowCol(row.cellRefs[i]).col : i \in DOMAIN row.cellRefs})
lastColumn(row) == Max({getExcelRowCol(row.cellRefs[i]).col : i \in DOMAIN row.cellRefs})

\* ws.cell(r, c): creates the cell and its row, appends the reference to the
\* row's cellRefs, and keeps lastUsedRow / lastUsedCol as running maxima
cellAccessor(w, r, c) ==
    LET ref == CellRef(r, c)
        row == IF r \in DOMAIN w.rows THEN w.rows[r] ELSE [r |-> r, cellRefs |-> <<>>]
        row2 == IF IndexOf(row.cellRefs, ref) < 0
                THEN [row EXCEPT !.cellRefs = Append(@, ref)] ELSE row
    IN  [w EXCEPT !.cells = IF HasCell(w, ref) THEN @
                            ELSE Append(@, [ref |-> ref, row |-> r, col |-> c]),
                  !.rows = (r :> row2) @@ @,
                  !.lastUsedRow = IF r > @ THEN r ELSE @,
                  !.lastUsedCol = IF c > @ THEN c ELSE @]

AddCell(s, r, c) ==
    /\ s \in DOMAIN ws
    /\ \/ run[s].pc = "idle"
       \/ run[s].pc = "done" /\ run[s].calls > 0
    /\ NumCells(ws[s]) < MaxCells
    /\ ~HasCell(ws[s], CellRef(r, c))
    /\ ws' = [ws EXCEPT ![s] = cellAccessor(@, r, c)]
    /\ UNCHANGED <<wbVars, definedNames, run, batch>>

----------------------------------------------------------------------------
(* The stages of sheetXML.  Each stage is one callback of the promise chain  *)
(* of lines 582-598; run[s].pc names the callback that runs next.            *)

AnySet(o) == \E k \in DOMAIN o : IsSet(o[k])

\* a chain that adds the hyperlinks before the data validations
PipelineSwapped ==
    <<"sheetPr", "dimension", "sheetViews", "sheetFormatPr", "cols", "sheetData",
      "sheetProtection", "autoFilter", "mergeCells", "conditionalFormatting",
      "hyperlinks", "dataValidations", "printOptions", "pageMargins", "pageSetup",
      "headerFooter", "drawing">>

\* lines 582-598: the stages in the order the chain calls them
Pipeline ==
    <<"sheetPr", "dimension", "sheetViews", "sheetFormatPr", "cols", "sheetData",
      "sheetProtection", "autoFilter", "mergeCells", "conditionalFormatting",
      "dataValidations", "hyperlinks", "printOptions", "pageMargins", "pageSetup",
      "headerFooter", "drawing">>

\* the callback that follows a stage that resolved: the next .then of the
\* chain, and after the last stage the callback that ends the document
NextCallback(stage) ==
    LET i == CHOOSE k \in DOMAIN Pipeline : Pipeline[k] = stage
    IN  IF i < Len(Pipeline) THEN Pipeline[i + 1] ELSE "end"

\* a stage that writes to one XML builder shared by every call in progress
EmitThenShared(s, stage, next, elements) ==
    /\ s \in DOMAIN ws
    /\ run[s].pc = stage
    /\ run' = [t \in DOMAIN run |->
                  IF t = s THEN [run[t] EXCEPT !.pc = next, !.xml = @ \o elements]
                  ELSE IF run[t].promise = "pending" /\ run[t].pc \notin {"catch", "failed"}
                       THEN [run[t] EXCEPT !.xml = @ \o elements]
                       ELSE run[t]]

\* a stage that ran: what it appended to the XML, and the callback that
\* runs next
EmitThen(s, stage, next, elements) ==
    /\ s \in DOMAIN ws
    /\ run[s].pc = stage
    /\ run' = [run EXCEPT ![s].pc = next, ![s].xml = @ \o elements]

\* a stage that resolved its promise (resolve(promiseObj))
Emit(s, stage, elements) == EmitThen(s, stage, NextCallback(stage), elements)

\* lines 7-47
SheetPrElements(w) ==
    LET o == w.opts
    IN  IF \/ IsSet(o.printOptions.fitToHeight)
           \/ IsSet(o.printOptions.fitToWidth)
           \/ IsSet(o.outline.summaryBelow)
           \/ IsSet(o.autoFilter.ref)
           \/ o.outline.summaryRight = Some(TRUE)
        THEN <<[name |-> "sheetPr",
                filterMode |-> IsSet(o.autoFilter.ref),
                outlinePr |-> IsSet(o.outline.summaryBelow) \/ IsSet(o.outline.summaryRight),
                pageSetUpPr |-> IsSet(o.pageSetup.fitToHeight)]>>
        ELSE <<>>

\* lines 555-582: sheetXML creates the promise, the XML builder and promiseObj,
\* and calls _addSheetPr at once; the other stages follow as callbacks
sheetXML(s) ==
    /\ s \in DOMAIN ws
    /\ run[s].pc \in {"idle", "done"}
    /\ run[s].calls > 0
    /\ run' = [run EXCEPT ![s] = [pc |-> NextCallback("sheetPr"),
                                  xml |-> SheetPrElements(ws[s]),
                                  promise |-> "pending",
                                  unhandled |-> FALSE,
                                  calls |-> @.calls - 1]]
    /\ UNCHANGED <<wbVars, definedNames, ws, batch>>

\* a dimension that swaps the row and the column
DimensionRefSwapped(w) ==
    "A1" \o ":" \o getExcelAlpha(w.lastUsedRow) \o ToString(w.lastUsedCol)

\* lines 52-57
DimensionRef(w) ==
    "A1" \o ":" \o getExcelAlpha(w.lastUsedCol) \o ToString(w.lastUsedRow)

\* lines 49-62: what the stage appends
DimensionOf(w) ==
    <<[name |-> "dimension", ref |-> DimensionRef(w)]>>

\* lines 49-62
_addDimension(s) ==
    /\ Emit(s, "dimension", DimensionOf(ws[s]))
    /\ UNCHANGED <<wbVars, definedNames, ws, batch>>

\* lines 64-103: what the stage appends
SheetViewsOf(w) ==
    <<[name |-> "sheetViews"]>>

\* lines 64-103
_addSheetViews(s) ==
    /\ Emit(s, "sheetViews", SheetViewsOf(ws[s]))
    /\ UNCHANGED <<wbVars, definedNames, ws, batch>>

\* lines 105-131: what the stage appends
SheetFormatPrOf(w) ==
    <<[name |-> "sheetFormatPr"]>>

\* lines 105-131
_addSheetFormatPr(s) ==
    /\ Emit(s, "sheetFormatPr", SheetFormatPrOf(ws[s]))
    /\ UNCHANGED <<wbVars, definedNames, ws, batch>>

\* lines 133-166: what the stage appends
ColsOf(w) ==
    IF w.columnCount > 0
    THEN <<[name |-> "cols", count |-> w.columnCount]>> ELSE <<>>

\* lines 133-166
_addCols(s) ==
    /\ Emit(s, "cols", ColsOf(ws[s]))
    /\ UNCHANGED <<wbVars, definedNames, ws, batch>>

----------------------------------------------------------------------------
(* _addSheetData: the rows, in batches *)

\* line 217: rows.splice(0, 500)
ChunkSize == 500

\* one traversal of the row keys: the keys still to process, what was emitted
NewBatch(keys, chunk) ==
    [keys |-> keys, chunk |-> chunk, rows |-> keys, emitted |-> <<>>, resolved |-> FALSE]

\* a splice that loses the row after each batch
SpliceSkipping(rows, n) ==
    [taken |-> SubSeq(rows, 1, IF n < Len(rows) THEN n ELSE Len(rows)),
     rest |-> SubSeq(rows, n + 2, Len(rows))]

\* line 217, Array.prototype.splice(0, n): the first n elements are removed
\* from the array and returned
Splice(rows, n) ==
    [taken |-> SubSeq(rows, 1, IF n < Len(rows) THEN n ELSE Len(rows)),
     rest |-> SubSeq(rows, n + 1, Len(rows))]

\* lines 216-223 with the processRows call of lines 174-214: one call of
\* processNextRows takes the next batch and emits its rows in order, or
\* finds nothing left and resolves
processNextRows(b) ==
    LET sp == Splice(b.rows, b.chunk)
    IN  IF Len(sp.taken) = 0
        THEN [b EXCEPT !.resolved = TRUE]
        ELSE [b EXCEPT !.rows = sp.rest, !.emitted = @ \o sp.taken]

\* processRows ends by calling processNextRows (line 213): the traversal runs
\* to its end within the stage
RECURSIVE RunBatches(_)
RunBatches(b) == IF b.resolved THEN b ELSE RunBatches(processNextRows(b))

\* a row that emits its cells in insertion order
SortedCellRefsUnsorted(row) == row.cellRefs

\* line 177: thisRow.cellRefs.sort(utils.sortCellRefs)
SortedCellRefs(row) == SortRefs(row.cellRefs)

\* lines 176-210: the row element with its cells, each serialized by the cell
RowElement(w, key) ==
    LET sorted == SortedCellRefs(w.rows[key])
    IN  [r |-> w.rows[key].r,
         cells |-> [i \in 1..Len(sorted) |-> CellAt(w, sorted[i])]]

\* lines 168-227
_addSheetData(s) ==
    /\ s \in DOMAIN ws
    /\ LET w == ws[s]
           done == RunBatches(NewBatch(ObjectKeys(DOMAIN w.rows), ChunkSize))
           order == done.emitted
       IN  /\ Emit(s, "sheetData",
                   <<[name |-> "sheetData",
                      rows |-> [i \in 1..Len(order) |-> RowElement(w, order[i])]]>>)
           /\ ws' = [ws EXCEPT ![s].rows =
                       [k \in DOMAIN w.rows |->
                           IF k \in Range(order)
                           THEN [w.rows[k] EXCEPT !.cellRefs = SortedCellRefs(w.rows[k])]
                           ELSE w.rows[k]]]
           /\ UNCHANGED <<wbVars, definedNames, batch>>

\* the batches of one traversal, one call of processNextRows at a time
BatchStep ==
    /\ ~batch.resolved
    /\ batch' = processNextRows(batch)
    /\ UNCHANGED <<wbVars, wsVars>>

----------------------------------------------------------------------------
(* _addSheetProtection *)

\* Object.keys(opts.sheetProtection)
ProtectionKeys == <<"sheet", "objects", "scenarios", "password", "formatCells">>

\* an element written without the defaults
WithoutProtectionDefaults(o) == o

\* lines 242-244: the required fields default to true
WithProtectionDefaults(o) ==
    [o EXCEPT !.sheet = IF IsSet(@) THEN @ ELSE Some(TRUE),
              !.objects = IF IsSet(@) THEN @ ELSE Some(TRUE),
              !.scenarios = IF IsSet(@) THEN @ ELSE Some(TRUE)]

\* lines 247-255: one attribute per option that is set
RECURSIVE ProtectionAtts(_, _)
ProtectionAtts(o, i) ==
    IF i > Len(ProtectionKeys) THEN <<>>
    ELSE LET k == ProtectionKeys[i]
         IN  (IF IsSet(o[k])
              THEN <<[att |-> k,
                      value |-> IF k = "password" THEN getHashOfPassword(Val(o[k]))
                                ELSE boolToInt(Val(o[k]))]>>
              ELSE <<>>) \o ProtectionAtts(o, i + 1)

\* lines 229-260
_addSheetProtection(s) ==
    /\ s \in DOMAIN ws
    /\ LET o == ws[s].opts.sheetProtection
       IN  IF AnySet(o)
           THEN /\ Emit(s, "sheetProtection",
                        <<[name |-> "sheetProtection",
                           atts |-> ProtectionAtts(WithProtectionDefaults(o), 1)]>>)
                /\ ws' = [ws EXCEPT ![s].opts.sheetProtection = WithProtectionDefaults(o)]
                /\ UNCHANGED <<wbVars, definedNames, batch>>
           ELSE /\ Emit(s, "sheetProtection", <<>>)
                /\ UNCHANGED <<wbVars, definedNames, ws, batch>>

----------------------------------------------------------------------------
(* _addAutoFilter *)

\* a scan that takes the first empty row itself for the end row
EndRowOffByOne(firstEmptyRow) == firstEmptyRow

\* line 285
EndRowOf(firstEmptyRow) == firstEmptyRow - 1

\* lines 275-283: the first row number from curRow on with no Row entry
RECURSIVE FirstEmptyRow(_, _)
FirstEmptyRow(rows, curRow) ==
    IF curRow \notin DOMAIN rows THEN curRow ELSE FirstEmptyRow(rows, curRow + 1)

\* lines 271-286: the options after the columns are normalised and the end
\* row is resolved
ResolveEndRow(w, o) ==
    IF IsSet(o.endRow) THEN o
    ELSE [o EXCEPT !.endRow = Some(EndRowOf(FirstEmptyRow(w.rows, Val(o.startRow))))]

\* line 289: the columns were not both set by the user
ColumnsUnset(o) == ~IsSet(o.startCol) \/ ~IsSet(o.endCol)

\* lines 290-291 read filterRow.firstColumn: a TypeError when the worksheet
\* has no Row entry at startRow (filterRow is undefined)
AutoFilterThrows(w, o) == ColumnsUnset(o) /\ Val(o.startRow) \notin DOMAIN w.rows

\* lines 289-292
ResolveColumns(w, o) ==
    IF ColumnsUnset(o)
    THEN [o EXCEPT !.startCol = Some(firstColumn(w.rows[Val(o.startRow)])),
                   !.endCol = Some(lastColumn(w.rows[Val(o.startRow)]))]
    ELSE o

\* lines 294-297
AutoFilterRef(o) ==
    getExcelAlpha(Val(o.startCol)) \o ToString(Val(o.startRow)) \o ":" \o
    getExcelAlpha(Val(o.endCol)) \o ToString(Val(o.endRow))

\* a defined name that is scoped by the sheet's id, not its local sheet id
FilterDatabaseNameBySheetId(w, o) ==
    [hidden |-> 1,
     localSheetId |-> w.sheetId,
     name |-> "_xlnm._FilterDatabase",
     refFormula |-> "'" \o w.name \o "'!" \o
                    "$" \o getExcelAlpha(Val(o.startCol)) \o "$" \o ToString(Val(o.startRow)) \o
                    ":" \o
                    "$" \o getExcelAlpha(Val(o.endCol)) \o "$" \o ToString(Val(o.endRow))]

\* lines 298-317
FilterDatabaseName(w, o) ==
    [hidden |-> 1,
     localSheetId |-> w.localSheetId,
     name |-> "_xlnm._FilterDatabase",
     refFormula |-> "'" \o w.name \o "'!" \o
                    "$" \o getExcelAlpha(Val(o.startCol)) \o "$" \o ToString(Val(o.startRow)) \o
                    ":" \o
                    "$" \o getExcelAlpha(Val(o.endCol)) \o "$" \o ToString(Val(o.endRow))]

\* lines 262-322
_addAutoFilter(s) ==
    /\ s \in DOMAIN ws
    /\ LET w == ws[s]
           o == w.opts.autoFilter
       IN  IF ~IsSet(o.startRow)
           THEN /\ Emit(s, "autoFilter", <<>>)
                /\ UNCHANGED <<wbVars, definedNames, ws, batch>>
           ELSE LET o2 == ResolveEndRow(w, o)
                IN  IF AutoFilterThrows(w, o2)
                    THEN \* the element is created (line 268), the executor
                         \* throws: the stage's promise is rejected
                         /\ EmitThen(s, "autoFilter", "catch",
                                 <<[name |-> "autoFilter", ref |-> None]>>)
                         /\ ws' = [ws EXCEPT ![s].opts.autoFilter = o2]
                         /\ UNCHANGED <<wbVars, definedNames, batch>>
                    ELSE LET o3 == ResolveColumns(w, o2)
                         IN  /\ Emit(s, "autoFilter",
                                     <<[name |-> "autoFilter",
                                        ref |-> Some(AutoFilterRef(o3))]>>)
                             /\ ws' = [ws EXCEPT ![s].opts.autoFilter = o3]
                             /\ definedNames' =
                                    Append(definedNames, FilterDatabaseName(w, o3))
                             /\ UNCHANGED <<wbVars, batch>>

----------------------------------------------------------------------------
(* Data validations.  Line numbers in this section refer to                 *)
(* src/source/lib/worksheet/classes/dataValidation.ts.                      *)

\* JavaScript values: the type tag typeof would see (null and arrays apart)
\* and the value, in a field of its type
undefined == [t |-> "undefined"]
null == [t |-> "null"]
Bool(b) == [t |-> "boolean", bool |-> b]
Num(n) == [t |-> "number", num |-> n]
Str(s) == [t |-> "string", str |-> s]
Array(a) == [t |-> "array", items |-> a]

IsUndefined(x) == x.t = "undefined"

\* String.prototype.substr(from, length)
substr(str, from, length) ==
    SubSeq(str, from + 1, IF from + length < Len(str) THEN from + length ELSE Len(str))

DigitChars == <<"0", "1", "2", "3", "4", "5", "6", "7", "8", "9">>

\* the number a string of decimal digits denotes; None (NaN) for any other
\* text
RECURSIVE ParseDigits(_, _, _)
ParseDigits(str, i, acc) ==
    IF i > Len(str) THEN Some(acc)
    ELSE LET c == substr(str, i - 1, 1)
         IN  IF \E d \in DOMAIN DigitChars : DigitChars[d] = c
             THEN ParseDigits(str, i + 1,
                      10 * acc + (CHOOSE d \in DOMAIN DigitChars : DigitChars[d] = c) - 1)
             ELSE None

\* Number(x): true is 1, false, null and the empty string are 0, a string
\* of digits is its number; None stands for NaN
Number(x) ==
    CASE x.t = "boolean" -> Some(IF x.bool THEN 1 ELSE 0)
      [] x.t = "number" -> Some(x.num)
      [] x.t = "null" -> Some(0)
      [] x.t = "undefined" -> None
      [] x.t = "string" -> ParseDigits(x.str, 1, 0)

\* the options of a rule, and the fields of a DataValidation (lines 55-69)
OptionNames ==
    {"sqref", "formulas", "allowBlank", "errorStyle", "error", "errorTitle", "imeMode",
     "operator", "prompt", "promptTitle", "showDropDown", "showErrorMessage",
     "showInputMessage", "type"}
RuleFields ==
    {"sqref", "formula1", "formula2", "allowBlank", "errorStyle", "error",
     "showErrorMessage", "errorTitle", "imeMode", "operator", "prompt",
     "showInputMessage", "promptTitle", "showDropDown", "type"}

NoOptions == [k \in OptionNames |-> undefined]

\* the constructor at its start: no field set, no error thrown
NewDataValidation(opts) ==
    [this |-> [k \in RuleFields |-> undefined], opts |-> opts, error |-> None]

Throw(st, message) == [st EXCEPT !.error = Some(message)]

\* lines 73-78
SqrefStep(st) ==
    IF IsSet(st.error) THEN st
    ELSE IF IsUndefined(st.opts.sqref)
    THEN Throw(st, "sqref must be specified when creating a DataValidation instance.")
    ELSE [st EXCEPT !.this.sqref = st.opts.sqref]

\* lines 79-86
FormulasStep(st) ==
    IF IsSet(st.error) \/ st.opts.formulas.t # "array" THEN st
    ELSE LET f == st.opts.formulas.items
         IN  [st EXCEPT !.this.formula1 =
                            IF Len(f) >= 1 /\ ~IsUndefined(f[1]) THEN f[1] ELSE @,
                        !.this.formula2 =
                            IF Len(f) >= 2 /\ ~IsUndefined(f[2]) THEN f[2] ELSE @]

\* lines 89-94 (and 187-192, 202-207, 217-222): 1 becomes true, 0 becomes
\* false, by the number the value converts to
NormalizeBoolean(x) ==
    LET one == IF Number(x) = Some(1) THEN Bool(TRUE) ELSE x
    IN  IF Number(one) = Some(0) THEN Bool(FALSE) ELSE one

\* lines 88-101, 186-199, 201-214, 216-229: a boolean option
BooleanStep(st, k) ==
    IF IsSet(st.error) \/ IsUndefined(st.opts[k]) THEN st
    ELSE LET b == NormalizeBoolean(st.opts[k])
             st2 == [st EXCEPT !.opts[k] = b]
         IN  IF b.t # "boolean"
             THEN Throw(st2, "DataValidation " \o k \o " must be true, false, 1 or 0")
             ELSE [st2 EXCEPT !.this[k] = b]

\* the closed sets of lines 104, 130-142, 152-161, 232-241
EnumsOf(k) ==
    CASE k = "errorStyle" -> {"stop", "warning", "information"}
      [] k = "imeMode" -> {"noControl", "off", "on", "disabled", "hiragana",
                           "fullKatakana", "halfKatakana", "fullAlpha", "halfAlpha",
                           "fullHangul", "halfHangul"}
      [] k = "operator" -> {"between", "notBetween", "equal", "notEqual", "lessThan",
                            "lessThanOrEqual", "greaterThan", "greaterThanOrEqual"}
      [] k = "type" -> {"none", "whole", "decimal", "list", "date", "time",
                        "textLength", "custom"}

\* enums.indexOf(value) < 0
NotInEnums(x, enums) == ~(x.t = "string" /\ x.str \in enums)

\* a check that lets every value pass
NotInEnumsUnchecked(x, enums) == FALSE

\* lines 103-111, 129-149, 151-168, 231-248: an option of a closed set
EnumStep(st, k) ==
    IF IsSet(st.error) \/ IsUndefined(st.opts[k]) THEN st
    ELSE IF NotInEnums(st.opts[k], EnumsOf(k))
    THEN Throw(st, "DataValidation " \o k \o " must be one of the enumeration")
    ELSE [st EXCEPT !.this[k] = st.opts[k]]

\* a message that sets the flag of the rule only
ForceFlagOnRuleOnly(st, flag) == [st EXCEPT !.this[flag] = Bool(TRUE)]

\* lines 118, 126, 175, 183: this.flag = opts.flag = true
ForceFlag(st, flag) ==
    [st EXCEPT !.this[flag] = Bool(TRUE), !.opts[flag] = Bool(TRUE)]

\* lines 113-127, 170-184: a text option, which forces its show flag
TextStep(st, k, flag) ==
    IF IsSet(st.error) \/ IsUndefined(st.opts[k]) THEN st
    ELSE IF st.opts[k].t # "string"
    THEN Throw(st, "DataValidation " \o k \o " must be a string")
    ELSE ForceFlag([st EXCEPT !.this[k] = st.opts[k]], flag)

\* lines 72-249: the constructor, its checks in the order of the code; the
\* result holds the rule, the caller's options as the constructor leaves
\* them, and the error thrown if any
DataValidationConstructor(opts) ==
    LET s1 == FormulasStep(SqrefStep(NewDataValidation(opts)))
        s2 == EnumStep(BooleanStep(s1, "allowBlank"), "errorStyle")
        s3 == TextStep(TextStep(s2, "error", "showErrorMessage"),
                       "errorTitle", "showErrorMessage")
        s4 == EnumStep(EnumStep(s3, "imeMode"), "operator")
        s5 == TextStep(TextStep(s4, "prompt", "showInputMessage"),
                       "promptTitle", "showInputMessage")
        s6 == BooleanStep(BooleanStep(BooleanStep(s5, "showDropDown"),
                                      "showErrorMessage"), "showInputMessage")
    IN  EnumStep(s6, "type")

\* a collection that keeps the rule whatever the constructor did
PushAnyway(items, made) == Append(items, made.this)

\* lines 307-308: the rule is pushed after the constructor returned; a
\* constructor that threw leaves the collection as it was
PushRule(items, made) ==
    IF IsSet(made.error) THEN items ELSE Append(items, made.this)

\* a formula that is quoted whatever it is
cleanFormulaAlwaysQuoted(f) ==
    Str("\"" \o (IF f.t = "number" THEN ToString(f.num) ELSE f.str) \o "\"")

\* lines 3-8
cleanFormula(f) ==
    IF f.t = "number" \/ substr(f.str, 0, 1) = "="
    THEN f
    ELSE Str("\"" \o f.str \o "\"")

\* the text the XML builder writes for a value
TextOf(x) == IF x.t = "number" THEN ToString(x.num) ELSE x.str

\* a showDropDown attribute written for a rule whose showDropDown is true
ShowDropDownAttWhenTrue(rule) ==
    IF rule.showDropDown = Bool(TRUE)
    THEN <<[att |-> "showDropDown", value |-> "1"]>> ELSE <<>>

\* line 267: showDropDown is written, as 1, for a rule whose showDropDown
\* is false
ShowDropDownAtt(rule) ==
    IF rule.showDropDown = Bool(FALSE)
    THEN <<[att |-> "showDropDown", value |-> "1"]>> ELSE <<>>

TextAtt(rule, k) ==
    IF IsUndefined(rule[k]) THEN <<>> ELSE <<[att |-> k, value |-> TextOf(rule[k])]>>
BoolAtt(rule, k) ==
    IF IsUndefined(rule[k]) THEN <<>>
    ELSE <<[att |-> k, value |-> ToString(boolToInt(rule[k].bool))]>>

\* lines 253-282: the attributes of the dataValidation element
DataValidationAtts(rule) ==
    TextAtt(rule, "type") \o TextAtt(rule, "errorStyle") \o TextAtt(rule, "imeMode") \o
    TextAtt(rule, "operator") \o BoolAtt(rule, "allowBlank") \o ShowDropDownAtt(rule) \o
    BoolAtt(rule, "showInputMessage") \o BoolAtt(rule, "showErrorMessage") \o
    TextAtt(rule, "errorTitle") \o TextAtt(rule, "error") \o
    TextAtt(rule, "promptTitle") \o TextAtt(rule, "prompt") \o TextAtt(rule, "sqref")

\* lines 283-289: the formula elements
DataValidationFormulas(rule) ==
    IF IsUndefined(rule.formula1) THEN <<>>
    ELSE <<[name |-> "formula1", text |-> TextOf(cleanFormula(rule.formula1))]>> \o
         (IF IsUndefined(rule.formula2) THEN <<>>
          ELSE <<[name |-> "formula2", text |-> TextOf(cleanFormula(rule.formula2))]>>)

\* lines 251-291: DataValidation.addToXMLele
DataValidationElement(rule) ==
    [name |-> "dataValidation",
     atts |-> DataValidationAtts(rule),
     children |-> DataValidationFormulas(rule)]

\* lines 312-318: DataValidationCollection.addToXMLele
DataValidationsElement(items) ==
    [name |-> "dataValidations",
     count |-> Len(items),
     rules |-> [i \in DOMAIN items |-> DataValidationElement(items[i])]]

\* the call of add examined is the first call the program makes after the
\* workbook and its worksheets are set up
CanAdd(s) ==
    /\ s \in DOMAIN ws
    /\ run[s].pc = "idle"
    /\ call.op = "constructor"

\* lines 306-310: DataValidationCollection.add on the collection of
\* worksheet s
add(s, opts) ==
    /\ CanAdd(s)
    /\ LET made == DataValidationConstructor(opts)
       IN  /\ ws' = [ws EXCEPT ![s].dataValidations = PushRule(@, made)]
           /\ call' = [op |-> "add",
                       arg |-> [sheet |-> s, opts |-> opts],
                       ret |-> [threw |-> IsSet(made.error), error |-> made.error,
                                rule |-> made.this, opts |-> made.opts]]
    /\ UNCHANGED <<sharedStrings, styles, stylesLookup, definedNames, run, batch>>

\* a rule as add leaves it in the collection
RuleOf(opts) == DataValidationConstructor(opts).this

----------------------------------------------------------------------------
(* The stages after the auto filter *)

\* lines 324-345: what the stage appends
MergeCellsOf(w) ==
    IF Len(w.mergedCells) > 0
    THEN <<[name |-> "mergeCells", count |-> Len(w.mergedCells)]>> ELSE <<>>

\* lines 324-345
_addMergeCells(s) ==
    /\ Emit(s, "mergeCells", MergeCellsOf(ws[s]))
    /\ UNCHANGED <<wbVars, definedNames, ws, batch>>

\* lines 347-353: the rules collection appends its own elements
ConditionalFormattingOf(w) ==
    IF w.hasCfRules THEN <<[name |-> "conditionalFormatting"]>> ELSE <<>>

\* lines 347-353: the rules collection appends its own elements
_addConditionalFormatting(s) ==
    /\ Emit(s, "conditionalFormatting", ConditionalFormattingOf(ws[s]))
    /\ UNCHANGED <<wbVars, definedNames, ws, batch>>

\* lines 363-371: what the stage appends
DataValidationsOf(w) ==
    IF Len(w.dataValidations) > 0
    THEN <<DataValidationsElement(w.dataValidations)>>
    ELSE <<>>

\* lines 363-371
_addDataValidations(s) ==
    /\ Emit(s, "dataValidations", DataValidationsOf(ws[s]))
    /\ UNCHANGED <<wbVars, definedNames, ws, batch>>

\* lines 355-361: the hyperlink collection appends its own element
HyperlinksOf(w) ==
    IF w.hasHyperlinks THEN <<[name |-> "hyperlinks"]>> ELSE <<>>

\* lines 355-361: the hyperlink collection appends its own element
_addHyperlinks(s) ==
    /\ Emit(s, "hyperlinks", HyperlinksOf(ws[s]))
    /\ UNCHANGED <<wbVars, definedNames, ws, batch>>

\* lines 373-398: what the stage appends
PrintOptionsOf(w) ==
    IF AnySet(w.opts.printOptions)
    THEN <<[name |-> "printOptions",
            horizontalCentered |-> w.opts.printOptions.centerHorizontal = Some(TRUE)]>>
    ELSE <<>>

\* lines 373-398
_addPrintOptions(s) ==
    /\ Emit(s, "printOptions", PrintOptionsOf(ws[s]))
    /\ UNCHANGED <<wbVars, definedNames, ws, batch>>

\* lines 400-417: what the stage appends
PageMarginsOf(w) ==
    <<[name |-> "pageMargins"]>>

\* lines 400-417
_addPageMargins(s) ==
    /\ Emit(s, "pageMargins", PageMarginsOf(ws[s]))
    /\ UNCHANGED <<wbVars, definedNames, ws, batch>>

\* lines 419-469: what the stage appends
PageSetupOf(w) ==
    IF AnySet(w.opts.pageSetup) THEN <<[name |-> "pageSetup"]>> ELSE <<>>

\* lines 419-469
_addPageSetup(s) ==
    /\ Emit(s, "pageSetup", PageSetupOf(ws[s]))
    /\ UNCHANGED <<wbVars, definedNames, ws, batch>>

\* lines 471-539: what the stage appends
HeaderFooterOf(w) ==
    IF AnySet(w.opts.headerFooter) THEN <<[name |-> "headerFooter"]>> ELSE <<>>

\* lines 471-539
_addHeaderFooter(s) ==
    /\ Emit(s, "headerFooter", HeaderFooterOf(ws[s]))
    /\ UNCHANGED <<wbVars, definedNames, ws, batch>>

\* a relationship id that forgets the + 1
DrawingRIdZeroBased(w) == IndexOf(w.relationships, "drawing")

\* line 545: dId = ws.relationships.indexOf('drawing') + 1
DrawingRId(w) == IndexOf(w.relationships, "drawing") + 1

\* lines 541-553: what the stage appends
DrawingOf(w) ==
    IF ~w.drawingIsEmpty
    THEN <<[name |-> "drawing", rId |-> "rId" \o ToString(DrawingRId(w))]>>
    ELSE <<>>

\* lines 541-553
_addDrawing(s) ==
    /\ Emit(s, "drawing", DrawingOf(ws[s]))
    /\ UNCHANGED <<wbVars, definedNames, ws, batch>>

\* lines 599-604: wsXML.end() closes the document
EndDocument(s) ==
    /\ EmitThen(s, "end", "resolve", <<>>)
    /\ UNCHANGED <<wbVars, definedNames, ws, batch>>

\* lines 605-607: the promise sheetXML returned is resolved with the XML
ResolveSheetXML(s) ==
    /\ s \in DOMAIN ws
    /\ run[s].pc = "resolve"
    /\ run' = [run EXCEPT ![s].pc = "done", ![s].promise = "resolved"]
    /\ UNCHANGED <<wbVars, definedNames, ws, batch>>

\* lines 608-610: the catch callback throws a new Error: the promise that
\* catch() returned is rejected and nobody handles it, and neither resolve
\* nor reject of the promise sheetXML returned is ever called
CatchAndRethrow(s) ==
    /\ s \in DOMAIN ws
    /\ run[s].pc = "catch"
    /\ run' = [run EXCEPT ![s].pc = "failed", ![s].unhandled = TRUE]
    /\ UNCHANGED <<wbVars, definedNames, ws, batch>>

----------------------------------------------------------------------------
(* relsXML and the relationship list *)

\* the entries of ws.relationships are Hyperlink objects, each named here by
\* its location, and the marker 'drawing'
HyperlinkLocations == {"http://a", "http://b"}

\* ws.addImage: the drawing collection is no longer empty, and the marker
\* 'drawing' is in the relationship list once
addImage(s) ==
    /\ s \in DOMAIN ws
    /\ run[s].pc = "idle"
    /\ call.op # "relsXML"
    /\ ws[s].drawingIsEmpty
    /\ Len(ws[s].relationships) < MaxRelationships
    /\ ws' = [ws EXCEPT ![s].drawingIsEmpty = FALSE,
                        ![s].relationships =
                            IF IndexOf(@, "drawing") < 0 THEN Append(@, "drawing") ELSE @]
    /\ UNCHANGED <<wbVars, definedNames, run, batch>>

\* a cell's link(): the hyperlink collection gets the Hyperlink and the
\* relationship list gets it appended
addHyperlink(s, location) ==
    /\ s \in DOMAIN ws
    /\ run[s].pc = "idle"
    /\ call.op # "relsXML"
    /\ Len(ws[s].relationships) < MaxRelationships
    /\ ws' = [ws EXCEPT ![s].hasHyperlinks = TRUE,
                        ![s].relationships = Append(@, location)]
    /\ UNCHANGED <<wbVars, definedNames, run, batch>>

\* lines 635-657: the Relationship elements, the entry at 0-based index i
\* with the Id rId(i + 1); an entry that is neither a Hyperlink nor the
\* drawing marker emits nothing
RECURSIVE Relationships(_, _)
Relationships(w, i) ==
    IF i >= Len(w.relationships) THEN <<>>
    ELSE LET r == w.relationships[i + 1]
             rId == "rId" \o ToString(i + 1)
         IN  (IF r \in HyperlinkLocations
              THEN <<[Id |-> rId, Target |-> r, TargetMode |-> "External",
                      Type |-> "hyperlink"]>>
              ELSE IF r = "drawing"
              THEN <<[Id |-> rId,
                      Target |-> "../drawings/drawing" \o ToString(w.sheetId) \o ".xml",
                      TargetMode |-> "Internal",
                      Type |-> "drawing"]>>
              ELSE <<>>) \o Relationships(w, i + 1)

\* lines 614-661: what the promise of relsXML is resolved with.  With an
\* empty list resolve() is called first (line 622), so the promise holds
\* undefined and the resolve(xmlString) of line 659 has no effect
relsXMLResult(w) ==
    IF Len(w.relationships) > 0 THEN Some(Relationships(w, 0)) ELSE None

\* lines 614-661
relsXML(s) ==
    /\ s \in DOMAIN ws
    /\ call' = [op |-> "relsXML",
                arg |-> [sheet |-> s, relationships |-> ws[s].relationships],
                ret |-> relsXMLResult(ws[s])]
    /\ UNCHANGED <<sharedStrings, styles, stylesLookup, wsVars, batch>>

----------------------------------------------------------------------------
(* Initial states and specifications *)

\* the Workbook after its constructor (lines 773-824): empty tables, and the
\* default style registered by createStyle({font: defaultFont}) (line 823)
InitWorkbook ==
    /\ sharedStrings = <<>>
    /\ styles = <<[opts |-> DefaultFontOpts, cellXfs |-> 0]>>
    /\ stylesLookup = (LookupKey(DefaultFontOpts) :> 1)
    /\ call = [op |-> "constructor", arg |-> DefaultFontOpts, ret |-> 1]
    /\ definedNames = <<>>

NoBatch == [keys |-> <<>>, chunk |-> ChunkSize, rows |-> <<>>, emitted |-> <<>>,
            resolved |-> TRUE]

NoSheets ==
    /\ ws = <<>>
    /\ run = <<>>

\* the auto filter options a worksheet is constructed with
AutoFilterConfigs ==
    {DefaultAutoFilter} \cup
    {[startRow |-> Some(r), endRow |-> e, startCol |-> c[1], endCol |-> c[2],
      ref |-> None] :
        r \in 1..MaxRow,
        e \in {None, Some(MaxRow)},
        c \in {<<None, None>>, <<Some(1), None>>, <<Some(1), Some(MaxCol)>>}}

\* one empty worksheet with default options and any auto filter options
Init ==
    /\ InitWorkbook
    /\ \E af \in AutoFilterConfigs :
          ws = (1 :> NewWorksheet(1, [DefaultOpts EXCEPT !.autoFilter = af]))
    /\ run = (1 :> Idle(1))
    /\ batch = NoBatch

\* the callbacks of the sheetXML calls in progress
Serialize ==
    \/ \E s \in SheetIds : sheetXML(s)
    \/ \E s \in SheetIds : _addDimension(s)
    \/ \E s \in SheetIds : _addSheetViews(s)
    \/ \E s \in SheetIds : _addSheetFormatPr(s)
    \/ \E s \in SheetIds : _addCols(s)
    \/ \E s \in SheetIds : _addSheetData(s)
    \/ \E s \in SheetIds : _addSheetProtection(s)
    \/ \E s \in SheetIds : _addAutoFilter(s)
    \/ \E s \in SheetIds : _addMergeCells(s)
    \/ \E s \in SheetIds : _addConditionalFormatting(s)
    \/ \E s \in SheetIds : _addDataValidations(s)
    \/ \E s \in SheetIds : _addHyperlinks(s)
    \/ \E s \in SheetIds : _addPrintOptions(s)
    \/ \E s \in SheetIds : _addPageMargins(s)
    \/ \E s \in SheetIds : _addPageSetup(s)
    \/ \E s \in SheetIds : _addHeaderFooter(s)
    \/ \E s \in SheetIds : _addDrawing(s)
    \/ \E s \in SheetIds : EndDocument(s)
    \/ \E s \in SheetIds : ResolveSheetXML(s)
    \/ \E s \in SheetIds : CatchAndRethrow(s)

Next ==
    \/ \E s \in SheetIds, r \in 1..MaxRow, c \in 1..MaxCol : AddCell(s, r, c)
    \/ Serialize

Spec == Init /\ [][Next]_vars

\* the workbook's string table alone
InitStrings == InitWorkbook /\ NoSheets /\ batch = NoBatch
NextStrings == \E val \in Texts : getStringIndex(val)
SpecStrings == InitStrings /\ [][NextStrings]_vars

\* the workbook's style table alone
NextStyles == \E opts \in StyleOpts : createStyle(opts)
SpecStyles == InitStrings /\ [][NextStyles]_vars

\* one traversal of the rows by _addSheetData, for any rows and chunk size
InitBatch ==
    /\ InitWorkbook
    /\ NoSheets
    /\ \E S \in SUBSET (1..MaxBatchRows), chunk \in 1..MaxChunk :
          batch = NewBatch(ObjectKeys(S), chunk)
NextBatch == BatchStep
SpecBatch == InitBatch /\ [][NextBatch]_vars

\* worksheets of every configuration the stages decide on: each option group
\* unset or set, each collection empty or not; the sheet holds the cell A1
OrderOpts ==
    {[printOptions |-> po, outline |-> ol, pageSetup |-> ps, headerFooter |-> hf,
      sheetProtection |-> sp, autoFilter |-> af] :
        po \in {DefaultOpts.printOptions,
                [DefaultOpts.printOptions EXCEPT !.fitToHeight = Some(1)],
                [DefaultOpts.printOptions EXCEPT !.centerHorizontal = Some(TRUE)]},
        ol \in {DefaultOpts.outline,
                [DefaultOpts.outline EXCEPT !.summaryBelow = Some(TRUE)],
                [DefaultOpts.outline EXCEPT !.summaryRight = Some(TRUE)]},
        ps \in {DefaultOpts.pageSetup,
                [DefaultOpts.pageSetup EXCEPT !.orientation = Some("landscape")]},
        hf \in {DefaultOpts.headerFooter,
                [DefaultOpts.headerFooter EXCEPT !.oddHeader = Some("title")]},
        sp \in {DefaultProtection,
                [DefaultProtection EXCEPT !.password = Some("secret")]},
        af \in {DefaultAutoFilter,
                [DefaultAutoFilter EXCEPT !.startRow = Some(1)],
                [DefaultAutoFilter EXCEPT !.startRow = Some(2)]}}

InitOrder ==
    /\ InitWorkbook
    /\ \E opts \in OrderOpts, cols \in {0, 1}, merged \in {<<>>, <<"A1:B1">>},
          cf \in BOOLEAN,
          dv \in {<<>>, <<RuleOf([NoOptions EXCEPT !.sqref = Str("A1")])>>},
          hl \in BOOLEAN,
          drawing \in BOOLEAN :
          ws = (1 :> [cellAccessor(NewWorksheet(1, opts), 1, 1) EXCEPT
                        !.columnCount = cols,
                        !.mergedCells = merged,
                        !.hasCfRules = cf,
                        !.dataValidations = dv,
                        !.hasHyperlinks = hl,
                        !.drawingIsEmpty = ~drawing,
                        !.relationships = IF drawing THEN <<"drawing">> ELSE <<>>])
    /\ run = (1 :> Idle(1))
    /\ batch = NoBatch

SpecOrder == InitOrder /\ [][Serialize]_vars

\* an empty worksheet, with or without an auto filter, that gets hyperlinks
\* and an image and is then written: its XML by sheetXML and its
\* relationship part by relsXML, in either order
InitRels ==
    /\ InitWorkbook
    /\ \E af \in {DefaultAutoFilter, [DefaultAutoFilter EXCEPT !.startRow = Some(1)]} :
          ws = (1 :> NewWorksheet(1, [DefaultOpts EXCEPT !.autoFilter = af]))
    /\ run = (1 :> Idle(1))
    /\ batch = NoBatch
NextRels ==
    \/ \E s \in SheetIds : addImage(s)
    \/ \E s \in SheetIds, location \in HyperlinkLocations : addHyperlink(s, location)
    \/ \E s \in SheetIds : relsXML(s)
    \/ Serialize
SpecRels == InitRels /\ [][NextRels]_vars

BooleanOptions == {"allowBlank", "showDropDown", "showErrorMessage", "showInputMessage"}
EnumOptions == {"errorStyle", "imeMode", "operator", "type"}
TextOptions == {"error", "errorTitle", "prompt", "promptTitle"}

\* the values a caller passes in an option, acceptable or not
OptionValues(k) ==
    CASE k \in BooleanOptions ->
             {Bool(TRUE), Bool(FALSE), Num(1), Num(0), Num(2), Str("1"), Str(""),
              Str("yes"), null}
      [] k = "errorStyle" -> {Str("stop"), Str("bogus")}
      [] k = "imeMode" -> {Str("off"), Str("bogus")}
      [] k = "operator" -> {Str("between"), Num(5)}
      [] k = "type" -> {Str("list"), Str("bogus")}
      [] k \in TextOptions -> {Str("Bad input"), Num(5), null}
      [] k = "formulas" -> {Array(<<Num(5)>>), Array(<<Num(1), Num(10)>>)}

\* the values of well-formed options, with every kind of formula
ValidOptionValues(k) ==
    CASE k \in BooleanOptions -> {Bool(TRUE), Bool(FALSE)}
      [] k = "errorStyle" -> {Str("stop")}
      [] k = "imeMode" -> {Str("off")}
      [] k = "operator" -> {Str("between")}
      [] k = "type" -> {Str("list")}
      [] k \in TextOptions -> {Str("Bad input")}
      [] k = "formulas" ->
             {Array(<<>>), Array(<<Num(5)>>), Array(<<Str("=SUM(A1:A2)")>>),
              Array(<<Str("Option A")>>), Array(<<Str("")>>),
              Array(<<Num(1), Num(10)>>), Array(<<Str("=A1"), Str("b")>>),
              Array(<<undefined, Num(10)>>)}

\* a field other than sqref with a value for it
Settings(any) ==
    UNION {{<<k, x>> : x \in IF any THEN OptionValues(k) ELSE ValidOptionValues(k)} :
           k \in OptionNames \ {"sqref"}}

\* the options that set up to n more fields than those of base
RECURSIVE OptionsFrom(_, _, _)
OptionsFrom(base, n, any) ==
    IF n = 0 THEN base
    ELSE base \cup {[o EXCEPT ![kx[1]] = kx[2]] :
                        o \in OptionsFrom(base, n - 1, any), kx \in Settings(any)}

WithSqref == [NoOptions EXCEPT !.sqref = Str("A1")]

\* options with or without sqref and up to MaxOptions more fields
RuleOptions == OptionsFrom({NoOptions, WithSqref}, MaxOptions, TRUE)

\* well-formed options: sqref and up to MaxOptions more fields
ValidRuleOptions == OptionsFrom({WithSqref}, MaxOptions, FALSE)

\* a rule with every field
ListOptions ==
    [sqref |-> Str("B2:B9"), formulas |-> Array(<<Str("Yes,No"), Num(2)>>),
     allowBlank |-> Num(1), errorStyle |-> Str("warning"), error |-> Str("Pick one"),
     errorTitle |-> Str("Invalid"), imeMode |-> Str("on"), operator |-> Str("equal"),
     prompt |-> Str("Yes or No"), promptTitle |-> Str("Answer"),
     showDropDown |-> Bool(FALSE), showErrorMessage |-> Bool(TRUE),
     showInputMessage |-> Bool(TRUE), type |-> Str("list")]

\* a worksheet whose collection holds no rule or one rule
ValidationSheets(filters) ==
    {[NewWorksheet(1, [DefaultOpts EXCEPT !.autoFilter = af]) EXCEPT !.dataValidations = dv] :
        af \in filters, dv \in {<<>>, <<RuleOf(ListOptions)>>}}

\* one call of add, with any options
InitValidation ==
    /\ InitWorkbook
    /\ \E w \in ValidationSheets({DefaultAutoFilter}) : ws = (1 :> w)
    /\ run = (1 :> Idle(1))
    /\ batch = NoBatch
NextValidation == \E s \in SheetIds : CanAdd(s) /\ \E opts \in RuleOptions : add(s, opts)
SpecValidation == InitValidation /\ [][NextValidation]_vars

\* a worksheet that gets a rule of well-formed options or none, and is then
\* written
InitValidationXML ==
    /\ InitWorkbook
    /\ \E w \in ValidationSheets({DefaultAutoFilter,
                                  [DefaultAutoFilter EXCEPT !.startRow = Some(1)]}) :
          ws = (1 :> w)
    /\ run = (1 :> Idle(1))
    /\ batch = NoBatch
NextValidationXML ==
    \/ \E s \in SheetIds : CanAdd(s) /\ \E opts \in ValidRuleOptions : add(s, opts)
    \/ Serialize
SpecValidationXML == InitValidationXML /\ [][NextValidationXML]_vars

\* the sheet protection options a worksheet is constructed with: each flag
\* unset, true or false, with or without a password
ProtectionConfigs ==
    {[sheet |-> sh, objects |-> ob, scenarios |-> sc, password |-> pw, formatCells |-> fc] :
        sh \in {None, Some(TRUE), Some(FALSE)},
        ob \in {None, Some(TRUE), Some(FALSE)},
        sc \in {None, Some(TRUE), Some(FALSE)},
        pw \in {None, Some("secret")},
        fc \in {None, Some(TRUE), Some(FALSE)}}

\* an empty worksheet with any sheet protection options, with or without an
\* auto filter, that is written
InitProtection ==
    /\ InitWorkbook
    /\ \E sp \in ProtectionConfigs,
          af \in {DefaultAutoFilter, [DefaultAutoFilter EXCEPT !.startRow = Some(1)]} :
          ws = (1 :> NewWorksheet(1, [DefaultOpts EXCEPT !.sheetProtection = sp,
                                                         !.autoFilter = af]))
    /\ run = (1 :> Idle(1))
    /\ batch = NoBatch
SpecProtection == InitProtection /\ [][Serialize]_vars

\* a worksheet that is written twice, with cells added before the first
\* call and between the calls; the auto filter starts at row 1 and its end
\* row and columns are left to the serializer, and the sheet protection is
\* unset or has only a password
InitRerun ==
    /\ InitWorkbook
    /\ \E pw \in {None, Some("secret")} :
          ws = (1 :> NewWorksheet(1,
                  [DefaultOpts EXCEPT !.autoFilter.startRow = Some(1),
                                      !.sheetProtection.password = pw]))
    /\ run = (1 :> Idle(2))
    /\ batch = NoBatch
SpecRerun == InitRerun /\ [][Next]_vars

\* the worksheets of the concurrent runs: no cell, one cell, two cells of
\* row 1 added right to left, or a cell in rows 1 and 2; no auto filter, one
\* that starts at row 1, or one that starts at row 1 with its columns given
ConcurrentSheets(id) ==
    {[w EXCEPT !.opts.autoFilter = af] :
        w \in {NewWorksheet(id, DefaultOpts),
               cellAccessor(NewWorksheet(id, DefaultOpts), 1, 1),
               cellAccessor(cellAccessor(NewWorksheet(id, DefaultOpts), 1, 2), 1, 1),
               cellAccessor(cellAccessor(NewWorksheet(id, DefaultOpts), 1, 1), 2, 1)},
        af \in {DefaultAutoFilter,
                [DefaultAutoFilter EXCEPT !.startRow = Some(1)],
                [DefaultAutoFilter EXCEPT !.startRow = Some(1), !.startCol = Some(1),
                                          !.endCol = Some(MaxCol)]}}

\* two worksheets of one workbook, each written once; the callbacks of the
\* two calls interleave in any order
InitConcurrent ==
    /\ InitWorkbook
    /\ \E w1 \in ConcurrentSheets(1), w2 \in ConcurrentSheets(2) :
          ws = (1 :> w1) @@ (2 :> w2)
    /\ run = (1 :> Idle(1)) @@ (2 :> Idle(1))
    /\ batch = NoBatch
SpecConcurrent == InitConcurrent /\ [][Serialize]_vars

----------------------------------------------------------------------------
(* Claims about the workbook's tables *)

NoDuplicates(seq) == \A i, j \in DOMAIN seq : i # j => seq[i] # seq[j]

\* C1: getStringIndex interns text.  A call never moves or removes an entry
\* of sharedStrings (so the index a text got at its first insertion is the
\* index it keeps), a call with a text already in the table leaves the table
\* as it is and returns the position that text already had, the index
\* returned is always the position of the text asked for (so two different
\* texts get different indices), and the table never holds a text twice.
C1_StringInterning ==
    [][call'.op = "getStringIndex" =>
          LET val == call'.arg
              index == call'.ret
          IN  /\ Len(sharedStrings') >= Len(sharedStrings)
              /\ \A i \in DOMAIN sharedStrings : sharedStrings'[i] = sharedStrings[i]
              /\ val \in Range(sharedStrings) =>
                    /\ sharedStrings' = sharedStrings
                    /\ sharedStrings[index + 1] = val
              /\ val \notin Range(sharedStrings) => index = Len(sharedStrings)
              /\ index + 1 \in DOMAIN sharedStrings'
              /\ sharedStrings'[index + 1] = val
              /\ NoDuplicates(sharedStrings')]_vars

\* C1 witness: the text first inserted was asked for again after another text
\* had been added, and index 0 came back
C1_Witness ==
    /\ call.op = "getStringIndex"
    /\ Len(sharedStrings) = 2
    /\ call.ret = 0
    /\ call.arg = "Hello"
    /\ sharedStrings = <<"Hello", "World">>

\* two option lists are structurally equal: the same fields with the same
\* values, in whatever order they are written
SameOptions(a, b) == Range(a) = Range(b)

\* C2: createStyle interns styles.  A call with options structurally equal to
\* those of a registered style (the fields in any order) returns that
\* registered style and leaves the styles table as it is; a call with options
\* different from every registered style appends one style and returns it,
\* with an index larger than every index assigned before; no call moves,
\* removes or renumbers a registered style.
C2_StyleInterning ==
    [][call'.op = "createStyle" =>
          LET same == {i \in DOMAIN styles : SameOptions(styles[i].opts, call'.arg)}
              ret == call'.ret
          IN  /\ Len(styles') >= Len(styles)
              /\ \A i \in DOMAIN styles : styles'[i] = styles[i]
              /\ same # {} =>
                    /\ styles' = styles
                    /\ ret \in same
                    /\ Cardinality(same) = 1
              /\ same = {} =>
                    /\ Len(styles') = Len(styles) + 1
                    /\ ret = Len(styles')
                    /\ SameOptions(styles'[ret].opts, call'.arg)
                    /\ \A i \in DOMAIN styles : styles'[ret].cellXfs > styles[i].cellXfs]_vars

\* C2 witness: a style registered with its fields in one order was asked for
\* with the fields in the other order, and the registered style came back
C2_Witness ==
    /\ call.op = "createStyle"
    /\ Len(call.arg) = 2
    /\ call.ret \in DOMAIN styles
    /\ styles[call.ret].opts # call.arg
    /\ SameOptions(styles[call.ret].opts, call.arg)
    /\ Len(styles) = 3

----------------------------------------------------------------------------
(* Claims about the element order of sheetXML *)

\* the element order the worksheet schema asks for
SchemaOrder ==
    <<"sheetPr", "dimension", "sheetViews", "sheetFormatPr", "cols", "sheetData",
      "sheetProtection", "autoFilter", "mergeCells", "conditionalFormatting",
      "dataValidations", "hyperlinks", "printOptions", "pageMargins", "pageSetup",
      "headerFooter", "drawing">>

SchemaIndex(name) == CHOOSE k \in DOMAIN SchemaOrder : SchemaOrder[k] = name

AlwaysEmitted == {"dimension", "sheetViews", "sheetFormatPr", "sheetData", "pageMargins"}

ElementNames(xml) == {xml[i].name : i \in DOMAIN xml}

\* the number of stages of the schema order that have run, by the callback
\* that runs next
StagesRun(pc) ==
    IF pc = "idle" THEN 0
    ELSE IF pc \in {"end", "resolve", "done"} THEN Len(SchemaOrder)
    ELSE IF pc \in {"catch", "failed"} THEN SchemaIndex("autoFilter")
    ELSE SchemaIndex(pc) - 1

\* the sheetXML call has nothing left to run
RunEnded(s) == run[s].pc \in {"done", "failed"}

----------------------------------------------------------------------------
(* Claims about the auto filter *)

\* the last row of the run of consecutive populated rows that begins at
\* startRow (startRow - 1 when startRow itself has no Row entry)
LastRowOfRun(rows, startRow) ==
    CHOOSE e \in (startRow - 1)..(MaxRow + 1) :
        /\ \A r \in startRow..e : r \in DOMAIN rows
        /\ (e + 1) \notin DOMAIN rows

\* the step is the autoFilter stage of worksheet s
AutoFilterStep(s) ==
    /\ s \in DOMAIN ws
    /\ run[s].pc = "autoFilter"
    /\ run'[s].pc # "autoFilter"

\* C4: when the autoFilter stage runs with startRow a number, it leaves in
\* endRow the number it found there, unchanged, if there was one, and
\* otherwise the last row of the run of consecutive populated rows that
\* begins at startRow, which is one less than the first row number from
\* startRow on that has no Row entry.
C4_EndRowResolution ==
    [][\A s \in SheetIds :
          AutoFilterStep(s) /\ IsSet(ws[s].opts.autoFilter.startRow) =>
              LET o == ws[s].opts.autoFilter
                  resolved == ws'[s].opts.autoFilter.endRow
              IN  /\ IsSet(resolved)
                  /\ IsSet(o.endRow) => resolved = o.endRow
                  /\ ~IsSet(o.endRow) =>
                        /\ Val(resolved) = LastRowOfRun(ws[s].rows, Val(o.startRow))
                        /\ (Val(resolved) + 1) \notin DOMAIN ws[s].rows
                        /\ \A r \in Val(o.startRow)..Val(resolved) :
                              r \in DOMAIN ws[s].rows]_vars

\* C4 witness: rows 1 and 3 are populated and row 2 is not, the filter starts
\* at row 1 with the columns left open, and the run resolved the end row 1
\* (not the last used row 3) and emitted the range A1:A1
C4_Witness ==
    \E s \in DOMAIN ws :
        /\ run[s].pc = "done"
        /\ DOMAIN ws[s].rows = {1, 3}
        /\ ws[s].opts.autoFilter.startRow = Some(1)
        /\ ws[s].opts.autoFilter.endRow = Some(1)
        /\ \E i \in DOMAIN run[s].xml :
              /\ run[s].xml[i].name = "autoFilter"
              /\ run[s].xml[i].ref = Some("A1:A1")

\* the texts of a rectangle: the ref attribute and the absolute reference
RangeRef(sc, sr, ec, er) ==
    Alphabet[sc] \o ToString(sr) \o ":" \o Alphabet[ec] \o ToString(er)
AbsoluteRef(name, sc, sr, ec, er) ==
    "'" \o name \o "'!$" \o Alphabet[sc] \o "$" \o ToString(sr) \o ":$" \o
    Alphabet[ec] \o "$" \o ToString(er)

\* the entry is the filter database name of worksheet w for the rectangle
\* that ref denotes
IsFilterDatabaseOf(entry, w, ref) ==
    /\ entry.name = "_xlnm._FilterDatabase"
    /\ entry.hidden = 1
    /\ entry.localSheetId = w.localSheetId
    /\ \E sc \in 1..MaxCol, ec \in 1..MaxCol, sr \in 1..MaxRow, er \in 0..MaxRow :
          /\ ref = RangeRef(sc, sr, ec, er)
          /\ entry.refFormula = AbsoluteRef(w.name, sc, sr, ec, er)

AutoFilterElements(xml) == {i \in DOMAIN xml : xml[i].name = "autoFilter"}

C6_UnresolvedBoundsAreAnError ==
    \A s \in DOMAIN ws :
        LET o == ws[s].opts.autoFilter
            emitted == AutoFilterElements(run[s].xml)
        IN  /\ (emitted # {} /\ Val(o.startRow) \notin DOMAIN ws[s].rows) =>
                  run[s].pc \in {"catch", "failed"}
            /\ \A i \in emitted :
                  IsSet(run[s].xml[i].ref) => Val(o.endRow) >= Val(o.startRow)

\* C7 as stated: a sheetXML call that has nothing left to run has settled its
\* promise, and when a stage threw the promise is rejected.
C7_ErrorsAreSurfaced ==
    \A s \in DOMAIN ws :
        /\ RunEnded(s) => run[s].promise \in {"resolved", "rejected"}
        /\ run[s].pc = "failed" => run[s].promise = "rejected"

----------------------------------------------------------------------------
(* Claims about the sheet data and the dimension *)

StrictlyAscending(seq) == \A i, j \in DOMAIN seq : i < j => seq[i] < seq[j]

\* C8: for every set of rows and every chunk size from 1 up, what the
\* batches have emitted followed by what is left to take is always the
\* single ascending traversal of the row keys (no row skipped or duplicated
\* at a batch boundary); every call of processNextRows before the end takes
\* at least one row or resolves, so the traversal terminates; and when it
\* has resolved it has emitted every row exactly once in ascending order.
C8_BatchingPreservesOutput ==
    /\ batch.chunk >= 1
    /\ StrictlyAscending(batch.keys)
    /\ batch.emitted \o batch.rows = batch.keys
    /\ ~batch.resolved =>
          LET n == processNextRows(batch)
          IN  n.resolved \/ Len(n.rows) < Len(batch.rows)
    /\ batch.resolved =>
          /\ batch.rows = <<>>
          /\ StrictlyAscending(batch.emitted)
          /\ Range(batch.emitted) = Range(batch.keys)
          /\ Len(batch.emitted) = Cardinality(Range(batch.keys))

\* C8 witness: four rows traversed in batches of three (a count that is not
\* a multiple of the chunk size), all emitted
C8_Witness ==
    /\ batch.resolved
    /\ batch.chunk = 3
    /\ batch.emitted = <<1, 2, 3, 4>>

SheetDataElements(xml) == {i \in DOMAIN xml : xml[i].name = "sheetData"}

\* C9: in the sheetData element of every worksheet, whatever order the
\* cells were inserted in, the rows are emitted in ascending row number with
\* one row element for each Row entry, and within each row the cells are
\* emitted in ascending column order, each cell reference of the row exactly
\* once.
C9_RowAndCellOrder ==
    \A s \in DOMAIN ws :
        \A i \in SheetDataElements(run[s].xml) :
            LET rows == run[s].xml[i].rows
            IN  /\ StrictlyAscending([k \in DOMAIN rows |-> rows[k].r])
                /\ {rows[k].r : k \in DOMAIN rows} = DOMAIN ws[s].rows
                /\ \A k \in DOMAIN rows :
                      LET cells == rows[k].cells
                          refs == ws[s].rows[rows[k].r].cellRefs
                      IN  /\ StrictlyAscending([c \in DOMAIN cells |-> cells[c].col])
                          /\ \A c \in DOMAIN cells : cells[c].row = rows[k].r
                          /\ {cells[c].ref : c \in DOMAIN cells} = Range(refs)
                          /\ Len(cells) = Cardinality(Range(refs))

\* C9 witness: B1 was inserted before A1, and row 1 was emitted as A1, B1
C9_Witness ==
    \E s \in DOMAIN ws :
        /\ [k \in DOMAIN ws[s].cells |-> ws[s].cells[k].ref] = <<"B1", "A1">>
        /\ \E i \in SheetDataElements(run[s].xml) :
              /\ Len(run[s].xml[i].rows) = 1
              /\ [c \in DOMAIN run[s].xml[i].rows[1].cells |->
                     run[s].xml[i].rows[1].cells[c].ref] = <<"A1", "B1">>

DimensionElements(xml) == {i \in DOMAIN xml : xml[i].name = "dimension"}

\* C10: once the dimension stage of a sheetXML call has run, the XML holds
\* exactly one dimension element, and for a worksheet with populated cells
\* its ref is A1: followed by the letter of the largest populated column and
\* the largest populated row number.
C10_Dimension ==
    \A s \in DOMAIN ws :
        LET dims == DimensionElements(run[s].xml)
            cells == ws[s].cells
        IN  /\ Cardinality(dims) = IF run[s].pc \in {"idle", "dimension"} THEN 0 ELSE 1
            /\ \A i \in dims :
                  cells # <<>> =>
                      run[s].xml[i].ref =
                          "A1:" \o Alphabet[Max({cells[k].col : k \in DOMAIN cells})]
                                \o ToString(Max({cells[k].row : k \in DOMAIN cells}))

\* C10 witness: the only populated cell is B3 and the run that resolved
\* declared the dimension A1:B3
C10_Witness ==
    \E s \in DOMAIN ws :
        /\ run[s].pc = "done"
        /\ Len(ws[s].cells) = 1
        /\ ws[s].cells[1].ref = "B3"
        /\ \E i \in DimensionElements(run[s].xml) : run[s].xml[i].ref = "A1:B3"

----------------------------------------------------------------------------
(* Claims about the relationship part *)

DrawingElements(xml) == {i \in DOMAIN xml : xml[i].name = "drawing"}

\* C11: relsXML gives the entry at 1-based position i of the relationship
\* list the Id rId<i> and resolves with no document when the list is empty;
\* and the r:id of a drawing element that sheetXML emitted is the Id of the
\* position of the drawing marker in the worksheet's list (never rId0), which
\* is the Id of the drawing Relationship in the document relsXML resolved
\* with for that worksheet.
C11_RelationshipIdsAgree ==
    /\ call.op = "relsXML" =>
          LET rels == call.arg.relationships
          IN  IF rels = <<>> THEN call.ret = None
              ELSE /\ IsSet(call.ret)
                   /\ Len(Val(call.ret)) = Len(rels)
                   /\ \A i \in DOMAIN rels :
                         /\ Val(call.ret)[i].Id = "rId" \o ToString(i)
                         /\ Val(call.ret)[i].Type = "drawing" <=> rels[i] = "drawing"
                         /\ Val(call.ret)[i].Type = "hyperlink" =>
                               Val(call.ret)[i].Target = rels[i]
    /\ \A s \in DOMAIN ws :
          \A e \in DrawingElements(run[s].xml) :
              /\ run[s].xml[e].rId # "rId0"
              /\ \E i \in DOMAIN ws[s].relationships :
                    /\ ws[s].relationships[i] = "drawing"
                    /\ run[s].xml[e].rId = "rId" \o ToString(i)
              /\ (call.op = "relsXML" /\ call.arg.sheet = s) =>
                    \E i \in DOMAIN Val(call.ret) :
                        /\ Val(call.ret)[i].Type = "drawing"
                        /\ Val(call.ret)[i].Id = run[s].xml[e].rId

\* C11 witness: a hyperlink was added before the image, sheetXML emitted the
\* drawing with rId2 and relsXML resolved with rId1 for the hyperlink and
\* rId2 for the drawing
C11_Witness ==
    /\ 1 \in DOMAIN ws
    /\ run[1].pc = "done"
    /\ ws[1].relationships = <<"http://a", "drawing">>
    /\ \E e \in DrawingElements(run[1].xml) : run[1].xml[e].rId = "rId2"
    /\ call.op = "relsXML"
    /\ IsSet(call.ret)
    /\ [i \in DOMAIN Val(call.ret) |-> Val(call.ret)[i].Id] = <<"rId1", "rId2">>

----------------------------------------------------------------------------
(* Claims about the data validations *)

\* the values the boolean options are documented to take
DocumentedBooleans == {Bool(TRUE), Bool(FALSE), Num(1), Num(0)}

\* the call of add that was made, if any
Added == call.op = "add"

\* C12 as stated: a call of add whose options hold, in a boolean field, a
\* value other than true, false, 1 and 0 throws; and a rule that was made
\* holds in each boolean field it was given the boolean of the value given
\* (true for true and 1, false for false and 0).
C12_BooleanFieldsAcceptExactly ==
    Added =>
        /\ (\E k \in BooleanOptions :
               /\ ~IsUndefined(call.arg.opts[k])
               /\ call.arg.opts[k] \notin DocumentedBooleans) => call.ret.threw
        /\ ~call.ret.threw =>
              \A k \in BooleanOptions :
                  call.arg.opts[k] \in DocumentedBooleans =>
                      call.ret.rule[k] \in {Bool(TRUE), Bool(FALSE)}

\* the options that add must refuse: no sqref, a value outside the closed
\* set of its field, or a message that is not text
Refused(opts) ==
    \/ IsUndefined(opts.sqref)
    \/ \E k \in EnumOptions :
          /\ ~IsUndefined(opts[k])
          /\ ~(opts[k].t = "string" /\ opts[k].str \in EnumsOf(k))
    \/ \E k \in TextOptions : ~IsUndefined(opts[k]) /\ opts[k].t # "string"

\* C13: a call of add with options that lack sqref, hold a value outside the
\* closed set of errorStyle, imeMode, operator or type, or hold an error,
\* errorTitle, prompt or promptTitle that is not text, throws; a call that
\* throws leaves the collection as it was; and a call that succeeds makes
\* the collection one longer, with the rules before in place and the
\* returned rule last.
C13_AddFailsFast ==
    [][\A s \in SheetIds :
          (s \in DOMAIN ws /\ call'.op = "add" /\ call.op # "add" /\ call'.arg.sheet = s) =>
              LET before == ws[s].dataValidations
                  after == ws'[s].dataValidations
              IN  /\ Refused(call'.arg.opts) => call'.ret.threw
                  /\ call'.ret.threw => after = before
                  /\ ~call'.ret.threw =>
                        /\ Len(after) = Len(before) + 1
                        /\ SubSeq(after, 1, Len(before)) = before
                        /\ after[Len(after)] = call'.ret.rule]_vars

\* C13 witness: add was called with the type bogus on a collection of one
\* rule, threw, and the collection still holds that one rule
C13_Witness ==
    /\ Added
    /\ call.arg.opts.type = Str("bogus")
    /\ ~IsUndefined(call.arg.opts.sqref)
    /\ call.ret.threw
    /\ ws[call.arg.sheet].dataValidations = <<RuleOf(ListOptions)>>

\* C14: a rule that was made from options with an error or errorTitle has
\* showErrorMessage true, and one made from options with a prompt or
\* promptTitle has showInputMessage true, whatever was passed for the flag.
C14_MessagesForceShowFlags ==
    (Added /\ ~call.ret.threw) =>
        LET opts == call.arg.opts
            rule == call.ret.rule
        IN  /\ (~IsUndefined(opts.error) \/ ~IsUndefined(opts.errorTitle)) =>
                  rule.showErrorMessage = Bool(TRUE)
            /\ (~IsUndefined(opts.prompt) \/ ~IsUndefined(opts.promptTitle)) =>
                  rule.showInputMessage = Bool(TRUE)

\* C14 witness: an error text was passed with showErrorMessage false, and
\* the rule has showErrorMessage true
C14_Witness ==
    /\ Added
    /\ ~call.ret.threw
    /\ call.arg.opts.error = Str("Bad input")
    /\ call.arg.opts.showErrorMessage = Bool(FALSE)
    /\ call.ret.rule.showErrorMessage = Bool(TRUE)

DataValidationsElements(xml) == {i \in DOMAIN xml : xml[i].name = "dataValidations"}

\* the text a formula is written as: a number bare, a text that begins
\* with = bare, any other text between double quotes
WrittenFormula(f) ==
    IF f.t = "number" THEN ToString(f.num)
    ELSE IF Len(f.str) > 0 /\ SubSeq(f.str, 1, 1) = "=" THEN f.str
    ELSE "\"" \o f.str \o "\""

\* C15: in the dataValidations element of every worksheet, each rule has at
\* most two formula elements, formula1 exactly when the rule has a first
\* formula, and formula2 after it exactly when the rule has both; a numeric
\* formula is written bare, a text that begins with = is written bare and
\* unchanged, and every other text is written between double quotes.
C15_FormulaQuoting ==
    \A s \in DOMAIN ws :
        \A e \in DataValidationsElements(run[s].xml) :
            \A i \in DOMAIN run[s].xml[e].rules :
                LET rule == ws[s].dataValidations[i]
                    children == run[s].xml[e].rules[i].children
                    has1 == ~IsUndefined(rule.formula1)
                    has2 == has1 /\ ~IsUndefined(rule.formula2)
                IN  /\ Len(children) = (IF has1 THEN 1 ELSE 0) + (IF has2 THEN 1 ELSE 0)
                    /\ has1 => /\ children[1].name = "formula1"
                               /\ children[1].text = WrittenFormula(rule.formula1)
                    /\ has2 => /\ children[2].name = "formula2"
                               /\ children[2].text = WrittenFormula(rule.formula2)

\* C15 witness: a run that resolved wrote the rule with the formulas Yes,No
\* and 2 as "Yes,No" and 2, and the rule with the formulas =A1 and b as =A1
\* and "b"
C15_Witness ==
    \E s \in DOMAIN ws :
        /\ run[s].pc = "done"
        /\ \E e \in DataValidationsElements(run[s].xml) :
              LET rules == run[s].xml[e].rules
              IN  /\ Len(rules) = 2
                  /\ [c \in DOMAIN rules[1].children |-> rules[1].children[c].text] =
                         <<"\"Yes,No\"", "2">>
                  /\ [c \in DOMAIN rules[2].children |-> rules[2].children[c].text] =
                         <<"=A1", "\"b\"">>

\* the order of the attributes of a dataValidation element
AttributeOrder ==
    <<"type", "errorStyle", "imeMode", "operator", "allowBlank", "showDropDown",
      "showInputMessage", "showErrorMessage", "errorTitle", "error", "promptTitle",
      "prompt", "sqref">>
AttributeIndex(k) == CHOOSE i \in DOMAIN AttributeOrder : AttributeOrder[i] = k

\* C16: once the dataValidations stage of a run has run, the XML holds a
\* dataValidations element exactly when the collection holds a rule, with
\* the number of rules for count and one dataValidation element per rule in
\* order; each of these has its attributes in the fixed order, one for each
\* field the rule has, except showDropDown, which is there, with the value
\* 1, exactly when the rule's showDropDown is false.
C16_DataValidationElements ==
    \A s \in DOMAIN ws :
        LET xml == run[s].xml
            items == ws[s].dataValidations
            found == DataValidationsElements(xml)
        IN  /\ Cardinality(found) =
                  IF StagesRun(run[s].pc) >= SchemaIndex("dataValidations") /\ Len(items) > 0
                  THEN 1 ELSE 0
            /\ \A e \in found :
                  /\ xml[e].count = Len(items)
                  /\ Len(xml[e].rules) = Len(items)
                  /\ \A i \in DOMAIN items :
                        LET atts == xml[e].rules[i].atts
                            names == {atts[a].att : a \in DOMAIN atts}
                        IN  /\ xml[e].rules[i].name = "dataValidation"
                            /\ \A a, b \in DOMAIN atts :
                                  a < b => AttributeIndex(atts[a].att) < AttributeIndex(atts[b].att)
                            /\ \A k \in Range(AttributeOrder) \ {"showDropDown"} :
                                  k \in names <=> ~IsUndefined(items[i][k])
                            /\ "showDropDown" \in names <=> items[i].showDropDown = Bool(FALSE)
                            /\ \A a \in DOMAIN atts :
                                  atts[a].att = "showDropDown" => atts[a].value = "1"

\* C16 witness: a run that resolved wrote two rules with count 2, the first
\* with all thirteen attributes in order (its showDropDown is false) and the
\* second, whose showDropDown is true, with sqref alone
C16_Witness ==
    \E s \in DOMAIN ws :
        /\ run[s].pc = "done"
        /\ Len(ws[s].dataValidations) = 2
        /\ ws[s].dataValidations[2].showDropDown = Bool(TRUE)
        /\ \E e \in DataValidationsElements(run[s].xml) :
              LET rules == run[s].xml[e].rules
              IN  /\ run[s].xml[e].count = 2
                  /\ [a \in DOMAIN rules[1].atts |-> rules[1].atts[a].att] = AttributeOrder
                  /\ [a \in DOMAIN rules[2].atts |-> rules[2].atts[a].att] = <<"sqref">>

----------------------------------------------------------------------------
(* Claims about the sheet protection *)

\* the step is the sheetProtection stage of worksheet s
ProtectionStep(s) ==
    /\ s \in DOMAIN ws
    /\ run[s].pc = "sheetProtection"
    /\ run'[s].pc # "sheetProtection"

\* the attribute of this name, if the element has it
AttOf(atts, k) ==
    IF \E a \in DOMAIN atts : atts[a].att = k
    THEN Some(atts[CHOOSE a \in DOMAIN atts : atts[a].att = k].value)
    ELSE None

\* C17: the sheetProtection stage appends a sheetProtection element exactly
\* when one of the protection options is set; the element has the
\* attributes sheet, objects and scenarios, each 1 unless the option was set,
\* in which case it is 1 for true and 0 for false; and it has a password
\* attribute exactly when a password is configured, holding the result of
\* the hashing function on it.
C17_SheetProtection ==
    [][\A s \in SheetIds :
          ProtectionStep(s) =>
              LET o == ws[s].opts.sheetProtection
                  before == run[s].xml
                  after == run'[s].xml
              IN  IF \A k \in DOMAIN o : o[k] = None
                  THEN after = before
                  ELSE /\ Len(after) = Len(before) + 1
                       /\ SubSeq(after, 1, Len(before)) = before
                       /\ after[Len(after)].name = "sheetProtection"
                       /\ LET atts == after[Len(after)].atts
                          IN  /\ \A k \in {"sheet", "objects", "scenarios"} :
                                    AttOf(atts, k) =
                                        Some(IF o[k] = Some(FALSE) THEN 0 ELSE 1)
                              /\ IsSet(AttOf(atts, "password")) <=> IsSet(o.password)
                              /\ IsSet(o.password) =>
                                    /\ AttOf(atts, "password") =
                                           Some(getHashOfPassword(Val(o.password)))
                                    /\ \A a \in DOMAIN atts :
                                          atts[a].att # "password" =>
                                              atts[a].value \in {0, 1}]_vars

\* C17 witness: only a password and sheet: false were configured, and the
\* run that resolved wrote sheet 0, objects 1, scenarios 1 and the hashed
\* password
C17_Witness ==
    \E s \in DOMAIN ws :
        /\ run[s].pc = "done"
        /\ \E e \in DOMAIN run[s].xml :
              /\ run[s].xml[e].name = "sheetProtection"
              /\ LET atts == run[s].xml[e].atts
                 IN  /\ [a \in DOMAIN atts |-> atts[a].att] =
                            <<"sheet", "objects", "scenarios", "password">>
                     /\ atts[1].value = 0
                     /\ atts[2].value = 1
                     /\ atts[3].value = 1
                     /\ atts[4].value = getHashOfPassword("secret")

----------------------------------------------------------------------------
(* Claims about the worksheet options over several runs *)

\* the options the serializer is said to leave alone
WatchedOptions(w) ==
    [startCol |-> w.opts.autoFilter.startCol,
     endRow |-> w.opts.autoFilter.endRow,
     endCol |-> w.opts.autoFilter.endCol,
     sheet |-> w.opts.sheetProtection.sheet,
     objects |-> w.opts.sheetProtection.objects,
     scenarios |-> w.opts.sheetProtection.scenarios]

\* no step changes the watched options of a worksheet
OptionsKept(s) == WatchedOptions(ws'[s]) = WatchedOptions(ws[s])

\* an autoFilter stage that resolves, on a worksheet whose end row the user
\* never set, writes the last row of the block of rows present at that time
EndRowAfresh(s) ==
    (run[s].pc = "autoFilter" /\ run'[s].pc = NextCallback("autoFilter")) =>
        LET w == ws[s]
            row == w.rows[1]
            last == FirstEmptyRow(w.rows, 1) - 1
            e == run'[s].xml[Len(run'[s].xml)]
        IN  /\ e.name = "autoFilter"
            /\ e.ref = Some(getExcelAlpha(firstColumn(row)) \o "1" \o ":" \o
                            getExcelAlpha(lastColumn(row)) \o ToString(last))

\* C18: a sheetXML run leaves the auto filter options startCol, endRow and
\* endCol and the sheet protection options sheet, objects and scenarios as
\* they were, so every run of a worksheet whose auto filter has only a start
\* row resolves the end row from the rows present at that run.
C18_SerializationLeavesOptions ==
    [][\A s \in SheetIds : s \in DOMAIN ws => OptionsKept(s) /\ EndRowAfresh(s)]_vars

\* the second run of a worksheet that had row 1 at the first run and rows 1
\* and 2 at the second one resolved, and its auto filter still ends at row 1
C18_StaleEndRow ==
    \E s \in DOMAIN ws :
        /\ run[s].pc = "done"
        /\ run[s].calls = 0
        /\ {1, 2} \subseteq DOMAIN ws[s].rows
        /\ \E e \in DOMAIN run[s].xml :
              /\ run[s].xml[e].name = "autoFilter"
              /\ run[s].xml[e].ref = Some("A1:A1")

----------------------------------------------------------------------------
(* Claims about concurrent runs *)

\* one stage run on worksheet w with no other call in progress: what it
\* appends, the worksheet it leaves, and whether it throws
SoloSheetData(w) ==
    LET order == RunBatches(NewBatch(ObjectKeys(DOMAIN w.rows), ChunkSize)).emitted
    IN  [elements |-> <<[name |-> "sheetData",
                         rows |-> [i \in 1..Len(order) |-> RowElement(w, order[i])]]>>,
         w |-> [w EXCEPT !.rows =
                  [k \in DOMAIN w.rows |->
                      IF k \in Range(order)
                      THEN [w.rows[k] EXCEPT !.cellRefs = SortedCellRefs(w.rows[k])]
                      ELSE w.rows[k]]],
         threw |-> FALSE]
SoloSheetProtection(w) ==
    LET o == w.opts.sheetProtection
    IN  IF AnySet(o)
        THEN [elements |-> <<[name |-> "sheetProtection",
                              atts |-> ProtectionAtts(WithProtectionDefaults(o), 1)]>>,
              w |-> [w EXCEPT !.opts.sheetProtection = WithProtectionDefaults(o)],
              threw |-> FALSE]
        ELSE [elements |-> <<>>, w |-> w, threw |-> FALSE]
SoloAutoFilter(w) ==
    LET o == w.opts.autoFilter
        o2 == ResolveEndRow(w, o)
        o3 == ResolveColumns(w, o2)
    IN  IF ~IsSet(o.startRow)
        THEN [elements |-> <<>>, w |-> w, threw |-> FALSE]
        ELSE IF AutoFilterThrows(w, o2)
        THEN [elements |-> <<[name |-> "autoFilter", ref |-> None]>>,
              w |-> [w EXCEPT !.opts.autoFilter = o2], threw |-> TRUE]
        ELSE [elements |-> <<[name |-> "autoFilter", ref |-> Some(AutoFilterRef(o3))]>>,
              w |-> [w EXCEPT !.opts.autoFilter = o3], threw |-> FALSE]
SoloStage(stage, w) ==
    LET Only(elements) == [elements |-> elements, w |-> w, threw |-> FALSE]
    IN  CASE stage = "sheetPr" -> Only(SheetPrElements(w))
          [] stage = "dimension" -> Only(DimensionOf(w))
          [] stage = "sheetViews" -> Only(SheetViewsOf(w))
          [] stage = "sheetFormatPr" -> Only(SheetFormatPrOf(w))
          [] stage = "cols" -> Only(ColsOf(w))
          [] stage = "sheetData" -> SoloSheetData(w)
          [] stage = "sheetProtection" -> SoloSheetProtection(w)
          [] stage = "autoFilter" -> SoloAutoFilter(w)
          [] stage = "mergeCells" -> Only(MergeCellsOf(w))
          [] stage = "conditionalFormatting" -> Only(ConditionalFormattingOf(w))
          [] stage = "dataValidations" -> Only(DataValidationsOf(w))
          [] stage = "hyperlinks" -> Only(HyperlinksOf(w))
          [] stage = "printOptions" -> Only(PrintOptionsOf(w))
          [] stage = "pageMargins" -> Only(PageMarginsOf(w))
          [] stage = "pageSetup" -> Only(PageSetupOf(w))
          [] stage = "headerFooter" -> Only(HeaderFooterOf(w))
          [] stage = "drawing" -> Only(DrawingOf(w))

\* the stages from the i-th on, run on worksheet w alone after the XML xml
\* was written: the XML when the run ends, and whether the run resolves
RECURSIVE SoloFrom(_, _, _)
SoloFrom(w, i, xml) ==
    IF i > Len(Pipeline) THEN [xml |-> xml, resolves |-> TRUE]
    ELSE LET r == SoloStage(Pipeline[i], w)
         IN  IF r.threw THEN [xml |-> xml \o r.elements, resolves |-> FALSE]
             ELSE SoloFrom(r.w, i + 1, xml \o r.elements)

\* the outcome of a sheetXML call if, from the state r of the call and the
\* worksheet w on, it ran alone
SoloOutcome(w, r) ==
    IF r.pc = "idle" THEN SoloFrom(w, 1, <<>>)
    ELSE IF r.pc \in Range(Pipeline)
    THEN SoloFrom(w, CHOOSE i \in DOMAIN Pipeline : Pipeline[i] = r.pc, r.xml)
    ELSE [xml |-> r.xml, resolves |-> r.pc \notin {"catch", "failed"}]

\* every call has ended
AllEnded == \A s \in DOMAIN ws : RunEnded(s)

\* the filter database names of worksheet s in the table
FilterDatabaseNamesOf(s) ==
    {i \in DOMAIN definedNames :
        /\ definedNames[i].name = "_xlnm._FilterDatabase"
        /\ definedNames[i].localSheetId = ws[s].localSheetId}

\* the table has exactly one filter database name of worksheet s, for the
\* range of the autoFilter element of its XML
OneOwnName(s) ==
    \E i \in DOMAIN definedNames :
        /\ FilterDatabaseNamesOf(s) = {i}
        /\ \E e \in AutoFilterElements(run[s].xml) :
              /\ IsSet(run[s].xml[e].ref)
              /\ IsFilterDatabaseOf(definedNames[i], ws[s], Val(run[s].xml[e].ref))

\* no step of either call changes the outcome a call would have alone
SoloOutcomeKept ==
    \A s \in SheetIds :
        s \in DOMAIN ws =>
            \E before \in {<<ws[s], run[s]>>}, after \in {<<ws'[s], run'[s]>>} :
                SoloOutcome(after[1], after[2]) = SoloOutcome(before[1], before[2])

----------------------------------------------------------------------------
(* Claims about the style registry *)

\* C20: after the Workbook constructor and after every createStyle call, the
\* styles table is not empty and its first style is the default-font style;
\* the style at index i of the table (counted from 0) has ids.cellXfs = i;
\* every entry of stylesLookup is a style of the table, filed under the key
\* of that style; and no two styles of the table have the same lookup key.
C20_StyleRegistry ==
    /\ Len(styles) >= 1
    /\ styles[1].opts = DefaultFontOpts
    /\ \A i \in DOMAIN styles : styles[i].cellXfs = i - 1
    /\ \A key \in DOMAIN stylesLookup :
          /\ stylesLookup[key] \in DOMAIN styles
          /\ toObject(styles[stylesLookup[key]].opts) = key
    /\ \A i \in DOMAIN styles, j \in DOMAIN styles :
          i # j => toObject(styles[i].opts) # toObject(styles[j].opts)

\* C20 witness: createStyle has registered two styles after the default one,
\* the last with both fields written number format first, and a later call
\* with the same fields in the other order returned it
C20_Witness ==
    /\ call.op = "createStyle"
    /\ Len(styles) = 3
    /\ styles[3].cellXfs = 2
    /\ Len(styles[3].opts) = 2
    /\ styles[3].opts[1].f = "numberFormat"
    /\ Cardinality(DOMAIN stylesLookup) = 3
    /\ call.ret = 3
    /\ call.arg # styles[3].opts

====
